---- MODULE Spec2Model ----
(***************************************************************************)
(* Model of the work-hours tracking application (app.py, init_db.py,       *)
(* create_user.py): the worked-hours calculation, the service CRUD routes, *)
(* the monthly queries and the session handling.                           *)
(*                                                                         *)
(* Text is modelled as a tuple of one-character strings, so that parsing   *)
(* (strptime, int, strip, ILIKE) is computed character by character.       *)
(* A float that holds a two-decimal value (worked_hours) is modelled by    *)
(* its value in hundredths of an hour.                                     *)
(***************************************************************************)
EXTENDS Integers, Sequences, FiniteSets, TLC

(***************************************************************************)
(* Characters and elementary text operations                               *)
(***************************************************************************)
Digits == {"0", "1", "2", "3", "4", "5", "6", "7", "8", "9"}

DigitVal(c) ==
  CASE c = "0" -> 0 [] c = "1" -> 1 [] c = "2" -> 2 [] c = "3" -> 3
    [] c = "4" -> 4 [] c = "5" -> 5 [] c = "6" -> 6 [] c = "7" -> 7
    [] c = "8" -> 8 [] c = "9" -> 9

IsDigit(c) == c \in Digits

InRange(c, lo, hi) == IsDigit(c) /\ DigitVal(c) >= lo /\ DigitVal(c) <= hi

\* s[p] when p is inside s, and a value equal to no character otherwise
At(s, p) == IF p >= 1 /\ p <= Len(s) THEN s[p] ELSE "<eos>"

Sub(s, p, n) == SubSeq(s, p, p + n - 1)

RECURSIVE DecVal(_)
DecVal(s) == IF s = << >> THEN 0
             ELSE 10 * DecVal(SubSeq(s, 1, Len(s) - 1)) + DigitVal(s[Len(s)])

IsSpace(c) == c = " "

Abs(n) == IF n < 0 THEN -n ELSE n

RECURSIVE LStrip(_)
LStrip(s) == IF s # << >> /\ IsSpace(s[1]) THEN LStrip(Tail(s)) ELSE s

RECURSIVE RStrip(_)
RStrip(s) == IF s # << >> /\ IsSpace(s[Len(s)])
             THEN RStrip(SubSeq(s, 1, Len(s) - 1)) ELSE s

\* str.strip()
strip(s) == RStrip(LStrip(s))

Lower(c) == CASE c = "A" -> "a" [] c = "B" -> "b" [] c = "X" -> "x" [] OTHER -> c

\* a function that may raise returns Ok(value) or Raise(exception)
Ok(v) == [ok |-> TRUE, val |-> v]
Raise(e) == [ok |-> FALSE, val |-> e]
ValueError == Raise("ValueError")


(***************************************************************************)
(* int(text): optional surrounding whitespace, optional sign, decimal      *)
(* digits with single underscores between digits                           *)
(***************************************************************************)
RECURSIVE IsDigitRun(_, _)
\* prev_digit: the previous character was a digit (an underscore may follow)
IsDigitRun(s, prev_digit) ==
  IF s = << >> THEN prev_digit
  ELSE IF IsDigit(s[1]) THEN IsDigitRun(Tail(s), TRUE)
  ELSE IF s[1] = "_" THEN prev_digit /\ Len(s) > 1 /\ IsDigit(s[2])
                          /\ IsDigitRun(Tail(s), FALSE)
  ELSE FALSE

RECURSIVE DropUnderscores(_)
DropUnderscores(s) ==
  IF s = << >> THEN << >>
  ELSE IF s[1] = "_" THEN DropUnderscores(Tail(s))
  ELSE <<s[1]>> \o DropUnderscores(Tail(s))

int(text) ==
  LET t    == strip(text)
      sign == IF At(t, 1) = "-" THEN -1 ELSE 1
      body == IF At(t, 1) \in {"+", "-"} THEN Tail(t) ELSE t
  IN  IF IsDigitRun(body, FALSE) THEN Ok(sign * DecVal(DropUnderscores(body)))
      ELSE ValueError

(***************************************************************************)
(* datetime.strptime: the format is compiled to a regular expression whose *)
(* directives are ordered alternatives; the match backtracks over them and *)
(* the whole text must be consumed.                                        *)
(***************************************************************************)
Lit(c) == [lit |-> c]
Dir(d) == [dir |-> d]
IsLit(item) == "lit" \in DOMAIN item

FmtHM  == <<Dir("H"), Lit(":"), Dir("M")>>                        \* '%H:%M'
FmtYM  == <<Dir("Y"), Lit("-"), Dir("m")>>                        \* '%Y-%m'
FmtYMD == <<Dir("Y"), Lit("-"), Dir("m"), Lit("-"), Dir("d")>>    \* '%Y-%m-%d'

\* The alternatives of a directive that match text s at position p, in the
\* order the regular expression tries them; each is <<skip, length>>: the
\* characters skipped before the number and the digits of the number.
Alts(d, s, p) ==
  LET c1 == At(s, p)
      c2 == At(s, p + 1)
      one(ok, alt) == IF ok THEN <<alt>> ELSE << >>
  IN CASE d = "Y" ->      \* \d\d\d\d
            one(IsDigit(c1) /\ IsDigit(c2) /\ IsDigit(At(s, p + 2))
                /\ IsDigit(At(s, p + 3)), <<0, 4>>)
       [] d = "m" ->      \* 1[0-2]|0[1-9]|[1-9]
            one(c1 = "1" /\ InRange(c2, 0, 2), <<0, 2>>)
            \o one(c1 = "0" /\ InRange(c2, 1, 9), <<0, 2>>)
            \o one(InRange(c1, 1, 9), <<0, 1>>)
       [] d = "d" ->      \* 3[0-1]|[1-2]\d|0[1-9]|[1-9]| [1-9]
            one(c1 = "3" /\ InRange(c2, 0, 1), <<0, 2>>)
            \o one(InRange(c1, 1, 2) /\ IsDigit(c2), <<0, 2>>)
            \o one(c1 = "0" /\ InRange(c2, 1, 9), <<0, 2>>)
            \o one(InRange(c1, 1, 9), <<0, 1>>)
            \o one(c1 = " " /\ InRange(c2, 1, 9), <<1, 1>>)
       [] d = "H" ->      \* 2[0-3]|[0-1]\d|\d
            one(c1 = "2" /\ InRange(c2, 0, 3), <<0, 2>>)
            \o one(InRange(c1, 0, 1) /\ IsDigit(c2), <<0, 2>>)
            \o one(IsDigit(c1), <<0, 1>>)
       [] d = "M" ->      \* [0-5]\d|\d
            one(InRange(c1, 0, 5) /\ IsDigit(c2), <<0, 2>>)
            \o one(IsDigit(c1), <<0, 1>>)

NoMatch == [ok |-> FALSE, vals |-> << >>, end |-> 0]

RECURSIVE Match(_, _, _, _)
RECURSIVE TryAlts(_, _, _, _, _)

\* re.match of the items fmt[i..] against s from position p: NoMatch, or the
\* numbers captured by the directives and the position after the match
Match(fmt, i, s, p) ==
  IF i > Len(fmt) THEN [ok |-> TRUE, vals |-> << >>, end |-> p]
  ELSE IF IsLit(fmt[i])
       THEN IF At(s, p) = fmt[i].lit THEN Match(fmt, i + 1, s, p + 1)
            ELSE NoMatch
       ELSE TryAlts(fmt, i, s, p, Alts(fmt[i].dir, s, p))

TryAlts(fmt, i, s, p, alts) ==
  IF alts = << >> THEN NoMatch
  ELSE LET skip == alts[1][1]
           n    == alts[1][2]
           rest == Match(fmt, i + 1, s, p + skip + n)
       IN  IF ~rest.ok THEN TryAlts(fmt, i, s, p, Tail(alts))
           ELSE [ok   |-> TRUE,
                 vals |-> <<DecVal(Sub(s, p + skip, n))>> \o rest.vals,
                 end  |-> rest.end]

\* the captured numbers, or ValueError ("does not match format" or
\* "unconverted data remains")
strptime_fields(s, fmt) ==
  LET r == Match(fmt, 1, s, 1)
  IN  IF ~r.ok \/ r.end # Len(s) + 1 THEN ValueError ELSE Ok(r.vals)

(***************************************************************************)
(* datetime values                                                         *)
(***************************************************************************)
MINYEAR == 1
MAXYEAR == 9999

IsLeap(y) == (y % 4 = 0) /\ ((y % 100 # 0) \/ (y % 400 = 0))

DaysInMonth(y, m) ==
  IF m = 2 THEN (IF IsLeap(y) THEN 29 ELSE 28)
  ELSE IF m \in {4, 6, 9, 11} THEN 30 ELSE 31

\* datetime(y, m, d): a date <<y, m, d>>, or ValueError when out of range
MkDate(y, m, d) ==
  IF y >= MINYEAR /\ y <= MAXYEAR /\ m >= 1 /\ m <= 12
     /\ d >= 1 /\ d <= DaysInMonth(y, m)
  THEN Ok(<<y, m, d>>) ELSE ValueError

\* comparison of dates: a <= b
DateLeq(a, b) ==
  \/ a[1] < b[1]
  \/ a[1] = b[1] /\ a[2] < b[2]
  \/ a[1] = b[1] /\ a[2] = b[2] /\ a[3] <= b[3]

\* date - timedelta(days=1)
MinusOneDay(dt) ==
  IF dt[3] > 1 THEN Ok(<<dt[1], dt[2], dt[3] - 1>>)
  ELSE IF dt[2] > 1 THEN Ok(<<dt[1], dt[2] - 1, DaysInMonth(dt[1], dt[2] - 1)>>)
  ELSE IF dt[1] > MINYEAR THEN Ok(<<dt[1] - 1, 12, 31>>)
  ELSE Raise("OverflowError")

\* datetime.strptime(s, '%H:%M').time(): a time <<hour, minute>>
strptime_HM(s) ==
  LET time(v) == IF ~v.ok THEN ValueError ELSE Ok(<<v.val[1], v.val[2]>>)
  IN  time(strptime_fields(s, FmtHM))

\* datetime.strptime(s, '%Y-%m-%d').date()
strptime_YMD(s) ==
  LET date(v) == IF ~v.ok THEN ValueError ELSE MkDate(v.val[1], v.val[2], v.val[3])
  IN  date(strptime_fields(s, FmtYMD))

\* datetime.strptime(s, '%Y-%m'): the first day of the month
strptime_YM(s) ==
  LET first_day(v) == IF ~v.ok THEN ValueError ELSE MkDate(v.val[1], v.val[2], 1)
  IN  first_day(strptime_fields(s, FmtYM))

Pad2(n) == IF n < 10 THEN <<"0">> ELSE << >>

RECURSIVE DecStr(_)
\* str(n) for n >= 0
DecStr(n) ==
  LET d == <<"0", "1", "2", "3", "4", "5", "6", "7", "8", "9">>[(n % 10) + 1]
  IN  IF n < 10 THEN <<d>> ELSE DecStr(n \div 10) \o <<d>>

\* time.strftime('%H:%M')
strftime_HM(t) == Pad2(t[1]) \o DecStr(t[1]) \o <<":">> \o Pad2(t[2]) \o DecStr(t[2])

(***************************************************************************)
(* calculate_worked_hours                                                  *)
(***************************************************************************)
\* round(minutes / 60, 2) in hundredths of an hour: 100 * minutes / 60 is a
\* multiple of 1/3, so it is never halfway between two hundredths
RoundHours(minutes) == (10 * minutes + 3) \div 6

\* variant: the hours are rounded down to a hundredth instead of to the nearest
calculate_worked_hours_truncating(entry_time_str, exit_time_str, break_duration_min) ==
  LET hours(entry, exit) ==
        IF ~entry.ok \/ ~exit.ok THEN 0
        ELSE (100 * ((exit.val[1] * 60 + exit.val[2])
                     - (entry.val[1] * 60 + entry.val[2])
                     - break_duration_min)) \div 60
  IN  hours(strptime_HM(entry_time_str), strptime_HM(exit_time_str))

\* variant: only a malformed entry time is caught; a malformed exit time is
\* taken as midnight
calculate_worked_hours_exit_unchecked(entry_time_str, exit_time_str, break_duration_min) ==
  LET hours(entry, exit) ==
        IF ~entry.ok THEN 0
        ELSE RoundHours((IF exit.ok THEN exit.val[1] * 60 + exit.val[2] ELSE 0)
                        - (entry.val[1] * 60 + entry.val[2])
                        - break_duration_min)
  IN  hours(strptime_HM(entry_time_str), strptime_HM(exit_time_str))

calculate_worked_hours(entry_time_str, exit_time_str, break_duration_min) ==
  LET \* the body of try, given the two parsed times
      hours(entry, exit) ==
        IF ~entry.ok \/ ~exit.ok THEN 0      \* except ValueError: return 0.0
        ELSE LET total_minutes  == (exit.val[1] * 60 + exit.val[2])
                                   - (entry.val[1] * 60 + entry.val[2])
                 worked_minutes == total_minutes - break_duration_min
             IN  RoundHours(worked_minutes)
  IN  hours(strptime_HM(entry_time_str), strptime_HM(exit_time_str))

(***************************************************************************)
(* Python float arithmetic (IEEE-754 binary64, round to nearest, ties to   *)
(* even).  A finite float is a sign and a magnitude; the magnitude is an   *)
(* exact multiple of 2^-60, held as NL limbs of 15 bits, least significant *)
(* first, so limbs 1..4 are the fraction and limbs 5.. the integer part.   *)
(* Every float that occurs here (hundredths of hours, minutes and their    *)
(* sums) is a multiple of 2^-60 below 2^45.                                *)
(***************************************************************************)
NL == 7
LimbBase == 32768
FracLimbs == 4

BZero == [i \in 1..NL |-> 0]
BOne  == [i \in 1..NL |-> IF i = 1 THEN 1 ELSE 0]

RECURSIVE BAddFrom(_, _, _, _)
BAddFrom(a, b, i, carry) ==
  IF i > NL THEN << >>
  ELSE LET t == a[i] + b[i] + carry
       IN  <<t % LimbBase>> \o BAddFrom(a, b, i + 1, t \div LimbBase)

BAdd(a, b) == BAddFrom(a, b, 1, 0)

RECURSIVE BSubFrom(_, _, _, _)
BSubFrom(a, b, i, borrow) ==
  IF i > NL THEN << >>
  ELSE LET t == a[i] - b[i] - borrow
       IN  IF t < 0 THEN <<t + LimbBase>> \o BSubFrom(a, b, i + 1, 1)
           ELSE <<t>> \o BSubFrom(a, b, i + 1, 0)

\* a - b for a >= b
BSub(a, b) == BSubFrom(a, b, 1, 0)

RECURSIVE BCmpFrom(_, _, _)
BCmpFrom(a, b, i) ==
  IF i = 0 THEN 0
  ELSE IF a[i] < b[i] THEN -1
  ELSE IF a[i] > b[i] THEN 1
  ELSE BCmpFrom(a, b, i - 1)

\* -1, 0 or 1 as a < b, a = b or a > b
BCmp(a, b) == BCmpFrom(a, b, NL)

RECURSIVE BMulFrom(_, _, _, _)
BMulFrom(a, k, i, carry) ==
  IF i > NL THEN << >>
  ELSE LET t == a[i] * k + carry
       IN  <<t % LimbBase>> \o BMulFrom(a, k, i + 1, t \div LimbBase)

\* a * k for 0 <= k < 2^15
BMulS(a, k) == BMulFrom(a, k, 1, 0)

RECURSIVE BDivFrom(_, _, _, _)
\* long division of limbs i..1 by k with incoming remainder r
BDivFrom(a, k, i, r) ==
  IF i = 0 THEN [q |-> << >>, r |-> r]
  ELSE LET cur  == r * LimbBase + a[i]
           rest == BDivFrom(a, k, i - 1, cur % k)
       IN  [q |-> rest.q \o <<cur \div k>>, r |-> rest.r]

\* quotient and remainder of a by k for 0 < k <= 2^15
BDivS(a, k) == BDivFrom(a, k, NL, 0)

RECURSIVE SmallBitLen(_)
SmallBitLen(n) == IF n = 0 THEN 0 ELSE 1 + SmallBitLen(n \div 2)

RECURSIVE TopLimb(_, _)
TopLimb(a, i) == IF i = 0 THEN 0 ELSE IF a[i] # 0 THEN i ELSE TopLimb(a, i - 1)

BBitLen(a) ==
  LET j == TopLimb(a, NL)
  IN  IF j = 0 THEN 0 ELSE 15 * (j - 1) + SmallBitLen(a[j])

\* a * 2^(15 w) and floor(a / 2^(15 w))
BShlLimbs(a, w) == [i \in 1..NL |-> IF i > w THEN a[i - w] ELSE 0]
BShrLimbs(a, w) == [i \in 1..NL |-> IF i + w <= NL THEN a[i + w] ELSE 0]

\* a * 2^s and floor(a / 2^s)
BShl(a, s) == BMulS(BShlLimbs(a, s \div 15), 2^(s % 15))
BShr(a, s) == BDivS(BShrLimbs(a, s \div 15), 2^(s % 15)).q

\* the integer part of a magnitude, as a number
BIntPart(a) == a[5] + LimbBase * a[6]

BFracPart(a) == [i \in 1..NL |-> IF i <= FracLimbs THEN a[i] ELSE 0]

BHalf == BShl(BOne, 59)

\* The magnitude a, followed by further nonzero digits when sticky holds,
\* rounded to 53 significant bits, ties to even.
Round53(a, sticky) ==
  LET len == BBitLen(a)
  IN  IF len <= 53 THEN a
      ELSE LET s       == len - 53
               q1      == BShr(a, s - 1)
               q       == BShr(q1, 1)
               half    == q1[1] % 2 = 1
               inexact == sticky \/ BShl(q1, s - 1) # a
               up      == half /\ (inexact \/ q[1] % 2 = 1)
           IN  BShl(IF up THEN BAdd(q, BOne) ELSE q, s)

F64(neg, mag) == [neg |-> neg /\ mag # BZero, mag |-> mag]

F64Zero == F64(FALSE, BZero)

\* the float nearest to h / 100 (what round(x, 2) returns), |h| < 2^15
F64FromHundredths(h) ==
  LET d == BDivS(BMulS(BShlLimbs(BOne, FracLimbs + 1), Abs(h)), 100)
  IN  F64(h < 0, BShr(Round53(d.q, d.r # 0), 15))

\* x * k for a small positive integer k
F64MulS(x, k) == F64(x.neg, Round53(BMulS(x.mag, k), FALSE))

F64Neg(x) == F64(~x.neg, x.mag)

\* x + y
F64Add(x, y) ==
  LET same == x.neg = y.neg
      big  == BCmp(x.mag, y.mag) >= 0
  IN  F64(IF same \/ big THEN x.neg ELSE y.neg,
          Round53(IF same THEN BAdd(x.mag, y.mag)
                  ELSE IF big THEN BSub(x.mag, y.mag)
                  ELSE BSub(y.mag, x.mag), FALSE))

F64Sub(x, y) == F64Add(x, F64Neg(y))

\* fabs(x) >= fabs(y)
F64AbsGeq(x, y) == BCmp(x.mag, y.mag) >= 0

RECURSIVE NaiveSum(_, _)
\* acc + xs[1] + xs[2] + ..., each addition rounded
NaiveSum(acc, xs) ==
  IF xs = << >> THEN acc ELSE NaiveSum(F64Add(acc, xs[1]), Tail(xs))

RECURSIVE NeumaierSum(_, _, _)
\* the compensated float loop of the builtin sum() of CPython 3.12 and later
NeumaierSum(f_result, c, xs) ==
  IF xs = << >> THEN (IF c # F64Zero THEN F64Add(f_result, c) ELSE f_result)
  ELSE LET x == xs[1]
           t == F64Add(f_result, x)
           e == IF F64AbsGeq(f_result, x)
                THEN F64Add(F64Sub(f_result, t), x)
                ELSE F64Add(F64Sub(x, t), f_result)
       IN  NeumaierSum(t, F64Add(c, e), Tail(xs))

\* The results the builtin sum() can give for a non-empty sequence of
\* floats: 0 + xs[1] is exact, the further items are added one by one
\* (before CPython 3.12) or with compensation (3.12 and later).
BuiltinSum(xs) ==
  {NaiveSum(xs[1], Tail(xs)), NeumaierSum(xs[1], F64Zero, Tail(xs))}

\* int(x // 60) for a float x
F64FloorDiv60(x) ==
  LET whole == BIntPart(x.mag)
  IN  IF ~x.neg THEN whole \div 60
      ELSE IF whole % 60 = 0 /\ BFracPart(x.mag) = BZero THEN -(whole \div 60)
      ELSE -(whole \div 60) - 1

\* int(x % 60) for a float x: fmod is exact; a negative remainder has 60
\* added, which rounds
F64Mod60(x) ==
  LET whole == BIntPart(x.mag)
      rem   == BAdd(BShlLimbs(BMulS(BOne, whole % 60), FracLimbs), BFracPart(x.mag))
  IN  IF ~x.neg THEN whole % 60
      ELSE IF rem = BZero THEN 0
      ELSE BIntPart(Round53(BSub(BShlLimbs(BMulS(BOne, 60), FracLimbs), rem), FALSE))

\* f"{n:02d}"
Format02d(n) ==
  IF n < 0 THEN <<"-">> \o DecStr(-n) ELSE Pad2(n) \o DecStr(n)

\* f"{x:.2f}": the exact value of x rounded to two decimals, ties to even;
\* a negative x keeps its sign even when it rounds to zero
Format2f(x) ==
  LET scaled == BMulS(x.mag, 100)
      whole  == BIntPart(scaled)
      c      == BCmp(BFracPart(scaled), BHalf)
      n      == IF c > 0 \/ (c = 0 /\ whole % 2 = 1) THEN whole + 1 ELSE whole
  IN  (IF x.neg THEN <<"-">> ELSE << >>)
      \o DecStr(n \div 100) \o <<".">> \o Pad2(n % 100) \o DecStr(n % 100)

(***************************************************************************)
(* State                                                                   *)
(***************************************************************************)
VARIABLES
  users,            \* rows of table 'users': [id, username, password_hash]
  services,         \* rows of table 'services'
  next_user_id,     \* the sequence behind users.id
  next_service_id,  \* the sequence behind services.id
  session,          \* the browser session: a function from its keys to values
  resp,             \* the last request handled and its response
  calc,             \* a direct call of a function of the program and its result
  pending           \* writes to table 'users' that passed their checks and await commit

vars == <<users, services, next_user_id, next_service_id, session, resp, calc, pending>>

db_vars == <<users, services, next_user_id, next_service_id>>

(***************************************************************************)
(* Texts used as inputs                                                    *)
(***************************************************************************)
U_Arles == <<"A", "r", "l", "e", "s">>
U_bob   == <<"b", "o", "b">>
U_al    == <<"a", "l">>

DEFAULT_ADMIN_PASSWORD == <<"p", "a", "s", "s", "w", "o", "r", "d", "1", "2", "3">>
P_secret == <<"s", "e", "c", "r", "e", "t">>
P_short  == <<"a", "b", "c">>

REGISTRATION_CODE == <<"a", "r", "l", "e", "s", "2", "2", "0", "8", ".">>

\* request.form.get(...) of a field that was not submitted
None == <<"None">>

\* truth value of a text or None
Truthy(v) == v # None /\ v # << >>

\* datetime.now().strftime("%Y-%m")
NowMonth == <<"2", "0", "2", "4", "-", "0", "2">>

Place_A == <<"A">>
Place_b == <<"b">>

D_0229    == <<"2", "0", "2", "4", "-", "0", "2", "-", "2", "9">>
D_9999    == <<"9", "9", "9", "9", "-", "1", "2", "-", "3", "1">>
D_0230    == <<"2", "0", "2", "4", "-", "0", "2", "-", "3", "0">>

M_9999  == <<"9", "9", "9", "9", "-", "1", "2">>
M_2413  == <<"2", "0", "2", "4", "-", "1", "3">>

B_x  == <<"x">>
B_30 == <<" ", "3", "0">>

T_0800 == <<"0", "8", ":", "0", "0">>
T_8_5  == <<"8", ":", "5">>
T_1612 == <<"1", "6", ":", "1", "2">>
T_2400 == <<"2", "4", ":", "0", "0">>

Form(place, date, entry_time, break_duration, exit_time, observations, no_discount) ==
  [place |-> place, date |-> date, entry_time |-> entry_time,
   break_duration |-> break_duration, exit_time |-> exit_time,
   observations |-> observations, no_discount_break |-> no_discount]

\* a day shift with the checkbox set and an unreadable break field
F_day   == Form(Place_A, D_0229, T_0800, B_x, T_1612, << >>, TRUE)
\* a shift that ends after midnight, the break deducted
F_night == Form(Place_b, D_9999, T_1612, B_30, T_8_5, <<" ", "a", "X", " ">>, FALSE)
\* the same shift, the break field readable
F_day_30 == Form(Place_A, D_0229, T_0800, B_30, T_1612, << >>, TRUE)
F_bad_date  == Form(Place_A, D_0230, T_0800, B_30, T_1612, << >>, FALSE)
F_bad_time  == Form(Place_A, D_0229, T_2400, B_30, T_1612, << >>, FALSE)
F_bad_break == Form(Place_A, D_0229, T_0800, B_x, T_1612, << >>, FALSE)

Forms == {F_day, F_day_30, F_night, F_bad_date, F_bad_time, F_bad_break}

MonthInputs == {NowMonth, M_9999, M_2413, << >>}

Searches == {<< >>, <<" ", "a">>, <<"_", "x">>}

\* the requests sent: a GET carries no form
NoForm == Form(<< >>, << >>, << >>, << >>, << >>, << >>, FALSE)

ServiceRequests == {<<"GET", NoForm>>} \cup {<<"POST", f>> : f \in Forms}

RegisterRequests ==
  {<<"GET", << >>, << >>, << >>, << >>>>,
   <<"POST", U_bob, P_secret, P_secret, REGISTRATION_CODE>>,
   <<"POST", U_bob, P_secret, P_secret, << >>>>,
   <<"POST", U_al, P_secret, P_secret, REGISTRATION_CODE>>,
   <<"POST", U_bob, P_short, P_short, REGISTRATION_CODE>>,
   <<"POST", U_bob, P_secret, P_short, REGISTRATION_CODE>>}

LoginRequests ==
  {<<"GET", << >>, << >>>>,
   <<"POST", U_Arles, DEFAULT_ADMIN_PASSWORD>>,
   <<"POST", U_Arles, P_secret>>,
   <<"POST", U_bob, P_secret>>,
   <<"POST", U_bob, P_short>>,
   <<"POST", U_al, DEFAULT_ADMIN_PASSWORD>>}

\* a change of password, and a change of username to one that is taken
ProfileRequests ==
  {<<"GET", None, None>>,
   <<"POST", U_Arles, None>>,
   <<"POST", None, <<DEFAULT_ADMIN_PASSWORD, P_secret, P_secret>>>>}

TasksRequests == {<<"GET", None>>, <<"POST", None>>, <<"POST", M_9999>>}

\* variant: the checkbox is not looked at, the break field is always read
ParseServiceForm_break_read(form) ==
  LET fields(date_obj, entry_time_obj, exit_time_obj, break_min) ==
        IF ~date_obj.ok \/ ~entry_time_obj.ok \/ ~exit_time_obj.ok \/ ~break_min.ok
        THEN ValueError
        ELSE Ok([date |-> date_obj.val, entry_time |-> entry_time_obj.val,
                 exit_time |-> exit_time_obj.val, break_duration |-> break_min.val])
  IN  fields(strptime_YMD(form.date), strptime_HM(form.entry_time),
             strptime_HM(form.exit_time), int(form.break_duration))

\* variant: a break field that is no integer counts as no break
ParseServiceForm_break_default(form) ==
  LET fields(date_obj, entry_time_obj, exit_time_obj, break_min) ==
        IF ~date_obj.ok \/ ~entry_time_obj.ok \/ ~exit_time_obj.ok
        THEN ValueError
        ELSE Ok([date |-> date_obj.val, entry_time |-> entry_time_obj.val,
                 exit_time |-> exit_time_obj.val,
                 break_duration |-> IF break_min.ok THEN break_min.val ELSE 0])
  IN  fields(strptime_YMD(form.date), strptime_HM(form.entry_time),
             strptime_HM(form.exit_time),
             IF form.no_discount_break THEN Ok(0) ELSE int(form.break_duration))

\* The fields of a submitted service form as the handlers convert them, in
\* the order of the conversions; the first failure is the result.
ParseServiceForm(form) ==
  LET fields(date_obj, entry_time_obj, exit_time_obj, break_min) ==
        IF ~date_obj.ok \/ ~entry_time_obj.ok \/ ~exit_time_obj.ok \/ ~break_min.ok
        THEN ValueError
        ELSE Ok([date |-> date_obj.val, entry_time |-> entry_time_obj.val,
                 exit_time |-> exit_time_obj.val, break_duration |-> break_min.val])
  IN  fields(strptime_YMD(form.date), strptime_HM(form.entry_time),
             strptime_HM(form.exit_time),
             IF form.no_discount_break THEN Ok(0) ELSE int(form.break_duration))

(***************************************************************************)
(* Conversions that many requests repeat, computed once                    *)
(***************************************************************************)
ParsedForms == [f \in Forms \cup {NoForm} |-> ParseServiceForm(f)]

\* variant: the hours are calculated as if no break were taken
StoredHours_without_break ==
  [f \in {g \in Forms : ParsedForms[g].ok} |->
     [add  |-> calculate_worked_hours(f.entry_time, f.exit_time, 0),
      edit |-> calculate_worked_hours(strftime_HM(ParsedForms[f].val.entry_time),
                                      strftime_HM(ParsedForms[f].val.exit_time), 0)]]

\* the hours add_service and edit_service store for a form they accept:
\* add_service calculates from the submitted texts, edit_service from the
\* parsed times formatted again with strftime('%H:%M')
StoredHours ==
  [f \in {g \in Forms : ParsedForms[g].ok} |->
     [add  |-> calculate_worked_hours(f.entry_time, f.exit_time,
                                      ParsedForms[f].val.break_duration),
      edit |-> calculate_worked_hours(strftime_HM(ParsedForms[f].val.entry_time),
                                      strftime_HM(ParsedForms[f].val.exit_time),
                                      ParsedForms[f].val.break_duration)]]

\* the hundredths of hours whose floats are kept in the tables below: up to
\* ten hours either way; every other value is converted when it is used
HoursRange == -1000..1000

HoursAsFloat == [h \in HoursRange |-> F64FromHundredths(h)]

\* service.worked_hours, a float
WorkedHoursFloat(h) ==
  IF h \in HoursRange THEN HoursAsFloat[h] ELSE F64FromHundredths(h)

MinutesAsFloat == [h \in HoursRange |-> F64MulS(F64FromHundredths(h), 60)]

\* s.worked_hours * 60
WorkedMinutesFloat(h) ==
  IF h \in HoursRange THEN MinutesAsFloat[h] ELSE F64MulS(F64FromHundredths(h), 60)

(***************************************************************************)
(* Bounds                                                                  *)
(***************************************************************************)
\* users ever created
MaxUsers == 2
\* services ever created
MaxServices == 2

ServiceIds == 1..MaxServices

(***************************************************************************)
(* werkzeug.security: a salted hash, modelled as the pair of the salt and  *)
(* the password it was made from                                           *)
(***************************************************************************)
Salts == {"salt"}

generate_password_hash(password, salt) == [salt |-> salt, digest |-> <<salt, password>>]

\* variant: every password verifies
check_password_hash_always(pwhash, password) == TRUE

check_password_hash(pwhash, password) == pwhash.digest = <<pwhash.salt, password>>

(***************************************************************************)
(* The session                                                             *)
(***************************************************************************)
Has(sess, k) == k \in DOMAIN sess

Put(sess, k, v) == [x \in (DOMAIN sess) \cup {k} |-> IF x = k THEN v ELSE sess[x]]

\* session.pop(k, None)
Pop(sess, k) == [x \in (DOMAIN sess) \ {k} |-> sess[x]]

\* session.get(k)
Get(sess, k) == IF Has(sess, k) THEN sess[k] ELSE None

\* flash(message, category) appends to the list under the session key
\* '_flashes'; only whether that list is non-empty is kept
flash(sess) == Put(sess, "_flashes", TRUE)

Resp(route, method, status) ==
  [route |-> route, method |-> method, status |-> status,
   args |-> << >>, queried |-> {}, listing |-> << >>, total |-> << >>,
   summary |-> << >>]

\* a response together with the arguments the handler read from the request
RespOf(route, method, status, args) == [Resp(route, method, status) EXCEPT !.args = args]

\* session.get('user_id') as the set of ids a row's user_id can equal: a
\* missing key gives None, which equals no user_id
SessionUserIds(sess) == IF Has(sess, "user_id") THEN {sess["user_id"]} ELSE {}

\* variant: the decorator lets every request through
login_required_open(sess) == FALSE

\* The decorator: TRUE when it answers the request itself, with a redirect
\* to login, instead of calling the handler.
login_required(sess) == ~(Has(sess, "logged_in") /\ sess["logged_in"])

\* flash('Debes iniciar sesion ...'); return redirect(url_for('login'))
RedirectToLogin(route, method) ==
  /\ session' = flash(session)
  /\ resp' = Resp(route, method, "302 login")
  /\ UNCHANGED <<db_vars, calc, pending>>

(***************************************************************************)
(* Users                                                                   *)
(***************************************************************************)
\* User.query.filter_by(username=username).first(), as a set of 0 or 1 rows
UserByName(username) == {u \in users : u.username = username}

UserById(id) == {u \in users : u.id = id}

\* db.session.add(User(username, hash)); db.session.commit()
InsertUser(username, password, salt) ==
  /\ next_user_id <= MaxUsers
  /\ users' = users \cup {[id |-> next_user_id, username |-> username,
                           password_hash |-> generate_password_hash(password, salt)]}
  /\ next_user_id' = next_user_id + 1

\* init_db.py
init_db ==
  /\ IF UserByName(U_Arles) = {}
     THEN /\ \E salt \in Salts : InsertUser(U_Arles, DEFAULT_ADMIN_PASSWORD, salt)
          /\ resp' = Resp("init_db", "run", "created")
     ELSE /\ resp' = Resp("init_db", "run", "exists")
          /\ UNCHANGED <<users, next_user_id>>
  /\ UNCHANGED <<services, next_service_id, session, calc, pending>>

register(method, username, password, confirm_password, registration_code) ==
  /\ IF method = "POST"
     THEN IF \/ registration_code # REGISTRATION_CODE
             \/ Len(username) < 3
             \/ Len(password) < 6
             \/ password # confirm_password
             \/ UserByName(username) # {}
          THEN /\ session' = flash(session)
               /\ resp' = Resp("register", method, "200")
               /\ UNCHANGED <<users, next_user_id>>
          ELSE /\ \E salt \in Salts : InsertUser(username, password, salt)
               /\ session' = flash(session)
               /\ resp' = Resp("register", method, "302 login")
     ELSE /\ resp' = Resp("register", method, "200")
          /\ UNCHANGED <<users, next_user_id, session>>
  /\ UNCHANGED <<services, next_service_id, calc, pending>>

login(method, username, password) ==
  /\ IF Has(session, "logged_in") /\ session["logged_in"]
     THEN /\ resp' = Resp("login", method, "302 index")
          /\ UNCHANGED session
     ELSE IF method = "POST"
     THEN IF \E user \in UserByName(username) :
                check_password_hash(user.password_hash, password)
          THEN \E user \in UserByName(username) :
                 /\ session' = flash([x \in (DOMAIN session) \cup
                                        {"logged_in", "username", "user_id",
                                         "current_month_selected", "_permanent"} |->
                                      CASE x = "logged_in" -> TRUE
                                        [] x = "username" -> username
                                        [] x = "user_id" -> user.id
                                        [] x = "current_month_selected" -> NowMonth
                                        [] x = "_permanent" -> TRUE
                                        [] OTHER -> session[x]])
                 /\ resp' = RespOf("login", method, "302 index",
                                   [username |-> username, password |-> password])
          ELSE /\ session' = flash(session)
               /\ resp' = RespOf("login", method, "200",
                                 [username |-> username, password |-> password])
     ELSE /\ resp' = Resp("login", method, "200")
          /\ UNCHANGED session
  /\ UNCHANGED <<db_vars, calc, pending>>

\* variant: logout forgets to drop logged_in
logout_keeps_login ==
  /\ session' = flash(Pop(Pop(Pop(session, "username"), "user_id"),
                          "current_month_selected"))
  /\ resp' = Resp("logout", "GET", "302 login")
  /\ UNCHANGED <<db_vars, calc, pending>>

logout ==
  /\ session' = flash(Pop(Pop(Pop(Pop(session, "logged_in"), "username"),
                              "user_id"), "current_month_selected"))
  /\ resp' = Resp("logout", "GET", "302 login")
  /\ UNCHANGED <<db_vars, calc, pending>>

\* the session is dropped once PERMANENT_SESSION_LIFETIME has passed
session_expire ==
  /\ session # << >>
  /\ session' = << >>
  /\ resp' = Resp("session_expire", "none", "none")
  /\ UNCHANGED <<db_vars, calc, pending>>

\* profile: a POST may carry a username, a password change, or both
profile(method, new_username_field, pw_fields) ==
  IF login_required(session) THEN RedirectToLogin("profile", method)
  ELSE
  /\ IF SessionUserIds(session) = {} \/ UserById(session["user_id"]) = {}
     THEN \* User.query.get(...) is None: user.username raises
          /\ resp' = Resp("profile", method, "500")
          /\ UNCHANGED <<users, session>>
     ELSE \E user \in UserById(session["user_id"]) :
          IF method = "POST"
          THEN LET new_username == strip(new_username_field)
                   rename == /\ new_username_field # None
                             /\ new_username # << >>
                             /\ new_username # user.username
                             /\ \A e \in UserByName(new_username) : e.id = user.id
                   repass == /\ pw_fields # None
                             /\ check_password_hash(user.password_hash, pw_fields[1])
                             /\ Len(pw_fields[2]) >= 6
                             /\ pw_fields[2] = pw_fields[3]
               IN  /\ \E salt \in Salts :
                        users' = (users \ {user}) \cup
                          {[id |-> user.id,
                            username |-> IF rename THEN new_username ELSE user.username,
                            password_hash |->
                              IF repass THEN generate_password_hash(pw_fields[2], salt)
                              ELSE user.password_hash]}
                   /\ session' =
                        LET s1 == IF rename THEN Put(session, "username", new_username)
                                  ELSE session
                        IN  IF new_username_field # None \/ pw_fields # None
                            THEN flash(s1) ELSE s1
                   /\ resp' = Resp("profile", method, "302 profile")
          ELSE /\ resp' = Resp("profile", method, "200")
               /\ UNCHANGED <<users, session>>
  /\ UNCHANGED <<services, next_user_id, next_service_id, calc, pending>>

(***************************************************************************)
(* Services                                                                *)
(***************************************************************************)
\* variant: the row is looked up by id alone
OwnService_any_owner(service_id) == {sv \in services : sv.id = service_id}

\* the ids of the rows Service.query.filter_by(id=service_id,
\* user_id=session.get('user_id')) finds
OwnService(service_id) ==
  {sv \in services : sv.id = service_id /\ sv.user_id \in SessionUserIds(session)}

add_service(method, form) ==
  IF login_required(session) THEN RedirectToLogin("add_service", method)
  ELSE
  /\ IF method = "POST"
     THEN LET parsed == ParsedForms[form]
          IN  IF ~parsed.ok
              THEN \* except ValueError: flash, render the form again
                   /\ session' = flash(session)
                   /\ resp' = RespOf("add_service", method, "200", [form |-> form])
                   /\ UNCHANGED <<services, next_service_id>>
              ELSE \E commit_ok \in BOOLEAN :
                   \* without a user_id the row violates NOT NULL
                   IF commit_ok /\ SessionUserIds(session) # {}
              THEN /\ next_service_id <= MaxServices
                   /\ services' = services \cup
                        {[id             |-> next_service_id,
                          user_id        |-> session["user_id"],
                          place          |-> form.place,
                          date           |-> parsed.val.date,
                          entry_time     |-> parsed.val.entry_time,
                          break_duration |-> parsed.val.break_duration,
                          exit_time      |-> parsed.val.exit_time,
                          worked_hours   |-> StoredHours[form].add,
                          observations   |-> strip(form.observations)]}
                   /\ next_service_id' = next_service_id + 1
                   /\ session' = flash(session)
                   /\ resp' = RespOf("add_service", method, "302 index", [form |-> form])
              ELSE \* the commit raises: db.session.rollback(), flash, form again
                   /\ session' = flash(session)
                   /\ resp' = RespOf("add_service", method, "200 rollback", [form |-> form])
                   /\ UNCHANGED <<services, next_service_id>>
     ELSE /\ resp' = RespOf("add_service", method, "200", [form |-> form])
          /\ UNCHANGED <<services, next_service_id, session>>
  /\ UNCHANGED <<users, next_user_id, calc, pending>>

\* The service object of edit_service when its try block ends with an
\* exception: the assignments run in the order of the code, and those after
\* the first conversion that raises do not run.
DirtyService(service, form) ==
  LET fields(date_obj, entry_time_obj, exit_time_obj, break_min) ==
        LET d == date_obj.ok
            e == d /\ entry_time_obj.ok
            x == e /\ exit_time_obj.ok
            b == x /\ break_min.ok
        IN  [id             |-> service.id,
             user_id        |-> service.user_id,
             place          |-> form.place,
             date           |-> IF d THEN date_obj.val ELSE service.date,
             entry_time     |-> IF e THEN entry_time_obj.val ELSE service.entry_time,
             break_duration |-> IF b THEN break_min.val ELSE service.break_duration,
             exit_time      |-> IF x THEN exit_time_obj.val ELSE service.exit_time,
             worked_hours   |-> service.worked_hours,
             observations   |-> IF x THEN strip(form.observations)
                                ELSE service.observations]
  IN  fields(strptime_YMD(form.date), strptime_HM(form.entry_time),
             strptime_HM(form.exit_time),
             IF form.no_discount_break THEN Ok(0) ELSE int(form.break_duration))

\* variant: what the object holds when the request ends is written
Uncommitted_written(service, dirty) == dirty

\* The stored row after a request that assigned to the object and did not
\* commit: except ValueError only flashes, and the database session is
\* removed when the request ends, which discards the assignments.
Uncommitted(service, dirty) == service

edit_service(service_id, method, form) ==
  IF login_required(session) THEN RedirectToLogin("edit_service", method)
  ELSE
  /\ IF OwnService(service_id) = {}
     THEN \* first_or_404()
          /\ resp' = RespOf("edit_service", method, "404",
                            [service_id |-> service_id])
          /\ UNCHANGED <<services, session>>
     ELSE \E service \in OwnService(service_id) :
          IF method = "POST"
          THEN LET parsed == ParsedForms[form]
               IN  IF ~parsed.ok
                   THEN \* except ValueError: the assignments made so far are
                        \* never committed and end with the request
                        /\ session' = flash(session)
                        /\ resp' = RespOf("edit_service", method, "200",
                                      [service_id |-> service_id, form |-> form])
                        /\ services' = (services \ {service}) \cup
                             {Uncommitted(service, DirtyService(service, form))}
                   ELSE \E commit_ok \in BOOLEAN :
                        IF commit_ok
                   THEN /\ services' = (services \ {service}) \cup
                             {[id             |-> service.id,
                               user_id        |-> service.user_id,
                               place          |-> form.place,
                               date           |-> parsed.val.date,
                               entry_time     |-> parsed.val.entry_time,
                               break_duration |-> parsed.val.break_duration,
                               exit_time      |-> parsed.val.exit_time,
                               worked_hours   |-> StoredHours[form].edit,
                               observations   |-> strip(form.observations)]}
                        /\ session' = flash(session)
                        /\ resp' = RespOf("edit_service", method, "302 index",
                                      [service_id |-> service_id, form |-> form])
                   ELSE /\ session' = flash(session)
                        /\ resp' = RespOf("edit_service", method, "200 rollback",
                                      [service_id |-> service_id, form |-> form])
                        /\ UNCHANGED services
          ELSE /\ resp' = RespOf("edit_service", method, "200",
                                      [service_id |-> service_id, form |-> form])
               /\ UNCHANGED <<services, session>>
  /\ UNCHANGED <<users, next_user_id, next_service_id, calc, pending>>

delete_service(service_id) ==
  IF login_required(session) THEN RedirectToLogin("delete_service", "POST")
  ELSE
  /\ IF OwnService(service_id) = {}
     THEN /\ resp' = RespOf("delete_service", "POST", "404",
                            [service_id |-> service_id])
          /\ UNCHANGED <<services, session>>
     ELSE \E service \in OwnService(service_id), commit_ok \in BOOLEAN :
          \* a failing commit is rolled back
          /\ services' = IF commit_ok THEN services \ {service} ELSE services
          /\ session' = flash(session)
          /\ resp' = RespOf("delete_service", "POST", "302 index",
                            [service_id |-> service_id])
  /\ UNCHANGED <<users, next_user_id, next_service_id, calc, pending>>

\* variant: the submitted value is stored without the test
load_month_unchecked(selected_month) ==
  IF login_required(session) THEN RedirectToLogin("load_month", "POST")
  ELSE
  /\ session' = flash(Put(session, "current_month_selected", selected_month))
  /\ resp' = RespOf("load_month", "POST", "302 index",
                    [selected_month |-> selected_month])
  /\ UNCHANGED <<db_vars, calc, pending>>

load_month(selected_month) ==
  IF login_required(session) THEN RedirectToLogin("load_month", "POST")
  ELSE
  /\ session' = flash(IF Truthy(selected_month)
                      THEN Put(session, "current_month_selected", selected_month)
                      ELSE session)
  /\ resp' = RespOf("load_month", "POST", "302 index",
                    [selected_month |-> selected_month])
  /\ UNCHANGED <<db_vars, calc, pending>>

load_tasks_month(selected_month) ==
  IF login_required(session) THEN RedirectToLogin("load_tasks_month", "POST")
  ELSE
  /\ session' = flash(IF Truthy(selected_month)
                      THEN Put(session, "current_month_selected", selected_month)
                      ELSE session)
  /\ resp' = RespOf("load_tasks_month", "POST", "302 tasks_summary",
                    [selected_month |-> selected_month])
  /\ UNCHANGED <<db_vars, calc, pending>>

(***************************************************************************)
(* The monthly queries                                                     *)
(***************************************************************************)
\* The first and the last day of the selected month, as the five query
\* routes compute them, or the exception raised on the way.
MonthRange(selected_month_str) ==
  LET last_day(start_date, end_date) ==
        IF ~end_date.ok THEN end_date
        ELSE Ok([start_date |-> start_date, end_date |-> end_date.val])
      next_month(start_date, next_first) ==
        IF ~next_first.ok THEN ValueError
        ELSE last_day(start_date, MinusOneDay(next_first.val))
      \* replace(year=y + 1, month=1, day=1) or replace(month=m + 1, day=1)
      range(selected_month_dt) ==
        IF ~selected_month_dt.ok THEN ValueError
        ELSE next_month(selected_month_dt.val,
                        IF selected_month_dt.val[2] = 12
                        THEN MkDate(selected_month_dt.val[1] + 1, 1, 1)
                        ELSE MkDate(selected_month_dt.val[1],
                                    selected_month_dt.val[2] + 1, 1))
  IN  IF selected_month_str = None THEN Raise("TypeError")
      ELSE range(strptime_YM(selected_month_str))

\* the ranges of the months a request can select, computed once
MonthRanges == [m \in MonthInputs \cup {None} |-> MonthRange(m)]

\* Service.query.filter(Service.user_id == user_id, Service.date >= start_date,
\*                      Service.date <= end_date)
MonthQuery(range) ==
  {sv \in services : /\ sv.user_id \in SessionUserIds(session)
                     /\ DateLeq(range.start_date, sv.date)
                     /\ DateLeq(sv.date, range.end_date)}

RECURSIVE LikeMatch(_, _)
\* text LIKE pattern, letters compared without case: '%' stands for any
\* run of characters and '_' for any one character
LikeMatch(pattern, text) ==
  IF pattern = << >> THEN text = << >>
  ELSE IF pattern[1] = "%"
       THEN LikeMatch(Tail(pattern), text)
            \/ (text # << >> /\ LikeMatch(pattern, Tail(text)))
  ELSE /\ text # << >>
       /\ (pattern[1] = "_" \/ Lower(pattern[1]) = Lower(text[1]))
       /\ LikeMatch(Tail(pattern), Tail(text))

\* column.ilike(f'%{search_query}%')
ilike(text, search_query) == LikeMatch(<<"%">> \o search_query \o <<"%">>, text)

\* the sequences that list every row of rows once
Perms(rows) ==
  {f \in [1..Cardinality(rows) -> rows] :
     \A i, j \in 1..Cardinality(rows) : i # j => f[i] # f[j]}

TimeLess(a, b) == a[1] < b[1] \/ (a[1] = b[1] /\ a[2] < b[2])

\* order_by(Service.date.desc(), Service.entry_time.desc()): rows that are
\* equal in both come in any order
IndexOrder(rows) ==
  {f \in Perms(rows) :
     \A i, j \in 1..Cardinality(rows) :
       i < j => \/ ~DateLeq(f[i].date, f[j].date)
                \/ (f[i].date = f[j].date /\ ~TimeLess(f[i].entry_time, f[j].entry_time))}

\* order_by(Service.date)
DateOrder(rows) ==
  {f \in Perms(rows) :
     \A i, j \in 1..Cardinality(rows) : i < j => DateLeq(f[i].date, f[j].date)}

Ids(listing) == [i \in 1..Len(listing) |-> listing[i].id]

\* total_hours_display of index for the listed rows
IndexTotals(listing) ==
  IF listing = << >> THEN {<<"0", "0", ":", "0", "0">>}
  ELSE {Format02d(F64FloorDiv60(total_minutes_overall)) \o <<":">>
          \o Format02d(F64Mod60(total_minutes_overall)) :
        total_minutes_overall \in
          BuiltinSum([i \in 1..Len(listing) |->
                        WorkedMinutesFloat(listing[i].worked_hours)])}

index(search) ==
  IF login_required(session) THEN RedirectToLogin("index", "GET")
  ELSE
  /\ LET search_query == strip(search)
         range == MonthRanges[Get(session, "current_month_selected")]
     IN  IF ~range.ok
         THEN \* except ValueError / except Exception: an empty page
              /\ session' = flash(session)
              /\ resp' = [RespOf("index", "GET", "200", [search |-> search]) EXCEPT
                            !.total = <<"0", "0", ":", "0", "0">>]
         ELSE LET rows == {sv \in MonthQuery(range.val) :
                             search_query # << >> =>
                               \/ ilike(sv.observations, search_query)
                               \/ ilike(sv.place, search_query)}
              IN  /\ \E listing \in IndexOrder(rows) :
                       \E total_hours_display \in IndexTotals(listing) :
                         resp' = [RespOf("index", "GET", "200",
                                         [search |-> search]) EXCEPT
                                    !.queried = {sv.id : sv \in rows},
                                    !.listing = Ids(listing),
                                    !.total = total_hours_display]
                  /\ UNCHANGED session
  /\ UNCHANGED <<db_vars, calc, pending>>

\* the total line of generate_pdf_report: the hours are added row by row
PdfTotal(listing) ==
  Format2f(NaiveSum(F64Zero, [i \in 1..Len(listing) |->
                                WorkedHoursFloat(listing[i].worked_hours)]))

\* download_pdf and preview_pdf differ only in how the file is sent
ServicesPdf(route) ==
  IF login_required(session) THEN RedirectToLogin(route, "GET")
  ELSE
  /\ LET range == MonthRanges[Get(session, "current_month_selected")]
     IN  IF ~range.ok
         THEN \* except Exception: flash, redirect to index
              /\ session' = flash(session)
              /\ resp' = Resp(route, "GET", "302 index")
         ELSE /\ \E listing \in DateOrder(MonthQuery(range.val)) :
                   resp' = [Resp(route, "GET", "200 pdf") EXCEPT
                              !.queried = {sv.id : sv \in MonthQuery(range.val)},
                              !.listing = Ids(listing),
                              !.total = PdfTotal(listing)]
              /\ UNCHANGED session
  /\ UNCHANGED <<db_vars, calc, pending>>

download_pdf == ServicesPdf("download_pdf")

preview_pdf == ServicesPdf("preview_pdf")

RECURSIVE GroupHours_assign(_, _)
\* variant: grouped_hours[service.place] = service.worked_hours
GroupHours_assign(grouped, listing) ==
  IF listing = << >> THEN grouped
  ELSE LET sv == listing[1]
           w  == WorkedHoursFloat(sv.worked_hours)
           at == {i \in 1..Len(grouped) : grouped[i][1] = sv.place}
       IN  GroupHours_assign(IF at = {}
                             THEN Append(grouped, <<sv.place, F64Add(F64Zero, w)>>)
                             ELSE [i \in 1..Len(grouped) |->
                                     IF i \in at THEN <<sv.place, w>> ELSE grouped[i]],
                             Tail(listing))

RECURSIVE GroupHours(_, _)
\* grouped_hours[service.place] += service.worked_hours over the rows in
\* order: the places in order of first appearance, each with its float total
GroupHours(grouped, listing) ==
  IF listing = << >> THEN grouped
  ELSE LET sv == listing[1]
           w  == WorkedHoursFloat(sv.worked_hours)
           at == {i \in 1..Len(grouped) : grouped[i][1] = sv.place}
       IN  GroupHours(IF at = {}
                      THEN Append(grouped, <<sv.place, F64Add(F64Zero, w)>>)
                      ELSE [i \in 1..Len(grouped) |->
                              IF i \in at THEN <<sv.place, F64Add(grouped[i][2], w)>>
                              ELSE grouped[i]],
                      Tail(listing))

\* the rows of the summary table: place and total, printed as '.2f'
SummaryRows(grouped) ==
  [i \in 1..Len(grouped) |-> <<grouped[i][1], Format2f(grouped[i][2])>>]

\* 'Total General de Horas': sum(tasks_summary_data.values()) printed as '.2f'
GeneralTotals(grouped) ==
  IF grouped = << >> THEN {Format2f(F64Zero)}
  ELSE {Format2f(t) : t \in BuiltinSum([i \in 1..Len(grouped) |-> grouped[i][2]])}

tasks_summary(method, form_selected_month) ==
  IF login_required(session) THEN RedirectToLogin("tasks_summary", method)
  ELSE
  /\ LET changed == method = "POST" /\ Truthy(form_selected_month)
         selected_month_str == IF changed THEN form_selected_month
                               ELSE Get(session, "current_month_selected")
         s1 == IF changed
               THEN Put(session, "current_month_selected", form_selected_month)
               ELSE session
         s2 == IF method = "POST" THEN flash(s1) ELSE s1
         range == MonthRanges[selected_month_str]
     IN  IF ~range.ok
         THEN /\ session' = flash(s2)
              /\ resp' = Resp("tasks_summary", method, "200")
         ELSE LET rows == {sv \in services :
                             /\ sv.user_id \in SessionUserIds(s2)
                             /\ DateLeq(range.val.start_date, sv.date)
                             /\ DateLeq(sv.date, range.val.end_date)}
              IN  /\ \E listing \in Perms(rows) :
                       resp' = [Resp("tasks_summary", method, "200") EXCEPT
                                  !.queried = {sv.id : sv \in rows},
                                  !.summary = SummaryRows(GroupHours(<< >>, listing))]
                  /\ session' = s2
  /\ UNCHANGED <<db_vars, calc, pending>>

generate_tasks_pdf ==
  IF login_required(session) THEN RedirectToLogin("generate_tasks_pdf", "GET")
  ELSE
  /\ LET range == MonthRanges[Get(session, "current_month_selected")]
     IN  IF ~range.ok
         THEN /\ session' = flash(session)
              /\ resp' = Resp("generate_tasks_pdf", "GET", "302 tasks_summary")
         ELSE /\ \E listing \in Perms(MonthQuery(range.val)) :
                   LET grouped == GroupHours(<< >>, listing)
                   IN  \E total_general_hours \in GeneralTotals(grouped) :
                         resp' = [Resp("generate_tasks_pdf", "GET", "200 pdf") EXCEPT
                                    !.queried = {sv.id : sv \in MonthQuery(range.val)},
                                    !.summary = SummaryRows(grouped),
                                    !.total = total_general_hours]
              /\ UNCHANGED session
  /\ UNCHANGED <<db_vars, calc, pending>>

(***************************************************************************)
(* The application: requests arrive in any order with inputs from the sets *)
(* below                                                                   *)
(***************************************************************************)
RespNone == Resp("none", "none", "none")

\* The database as init_db.py leaves it when it first runs: the tables
\* exist and hold the default user.
Init ==
  /\ \E salt \in Salts :
       users = {[id |-> 1, username |-> U_Arles,
                 password_hash |-> generate_password_hash(DEFAULT_ADMIN_PASSWORD, salt)]}
  /\ services = {}
  /\ next_user_id = 2
  /\ next_service_id = 1
  /\ session = << >>
  /\ resp = RespNone
  /\ calc = [entry_time_str |-> << >>, exit_time_str |-> << >>,
             break_duration_min |-> 0, called |-> FALSE, result |-> 0]
  /\ pending = {}

Next ==
  \/ init_db
  \/ \E r \in RegisterRequests : register(r[1], r[2], r[3], r[4], r[5])
  \/ \E r \in LoginRequests : login(r[1], r[2], r[3])
  \/ logout
  \/ session_expire
  \/ \E r \in ProfileRequests : profile(r[1], r[2], r[3])
  \/ \E search \in Searches : index(search)
  \/ \E r \in ServiceRequests : add_service(r[1], r[2])
  \/ \E id \in ServiceIds, r \in ServiceRequests : edit_service(id, r[1], r[2])
  \/ \E id \in ServiceIds : delete_service(id)
  \/ \E sel \in MonthInputs \cup {None} : load_month(sel)
  \/ \E sel \in MonthInputs \cup {None} : load_tasks_month(sel)
  \/ download_pdf
  \/ preview_pdf
  \/ \E r \in TasksRequests : tasks_summary(r[1], r[2])
  \/ generate_tasks_pdf

Spec == Init /\ [][Next]_vars

(***************************************************************************)
(* Direct calls of calculate_worked_hours                                  *)
(***************************************************************************)
\* texts with one or two digits per field, the ends of the day, fields out
\* of range, trailing data, a wrong separator and the empty text
CalcTimes ==
  {<<"0", "0", ":", "0", "0">>, T_0800, T_8_5, <<"1", "0", ":", "0", "3">>, T_1612,
   <<"2", "3", ":", "5", "9">>, T_2400, <<"1", "2", ":", "6", "0">>,
   <<"0", "8", ":", "0", "0", " ">>, <<"0", "8", "-", "0", "0">>, << >>}

CalcBreaks == {-15, 0, 20, 30, 1500}

InitCalc ==
  /\ users = {} /\ services = {} /\ next_user_id = 1 /\ next_service_id = 1
  /\ session = << >>
  /\ resp = RespNone
  /\ calc \in [entry_time_str : CalcTimes, exit_time_str : CalcTimes,
               break_duration_min : CalcBreaks, called : {FALSE}, result : {0}]
  /\ pending = {}

CallCalculate ==
  /\ ~calc.called
  /\ calc' = [calc EXCEPT !.called = TRUE,
                          !.result = calculate_worked_hours(calc.entry_time_str,
                                                            calc.exit_time_str,
                                                            calc.break_duration_min)]
  /\ UNCHANGED <<db_vars, session, resp, pending>>

NextCalc == CallCalculate

SpecCalc == InitCalc /\ [][NextCalc]_vars


(***************************************************************************)
(* Direct computations of the range of a selected month                    *)
(***************************************************************************)
\* the first and the last year of the calendar, a century year that is a
\* leap year and one that is not, a leap year and the year after it
CalcYears == {1, 1900, 2000, 2024, 2025, 9999}

\* the twelve months of each of these years, written YYYY-MM
CalcMonths ==
  {(IF y < 10 THEN <<"0", "0", "0">> ELSE << >>) \o DecStr(y) \o <<"-">>
     \o Pad2(m) \o DecStr(m) : y \in CalcYears, m \in 1..12}

InitMonth ==
  /\ users = {} /\ services = {} /\ next_user_id = 1 /\ next_service_id = 1
  /\ session = << >>
  /\ resp = RespNone
  /\ calc \in [selected_month_str : CalcMonths, called : {FALSE}, result : {ValueError}]
  /\ pending = {}

\* the try block of index up to end_date, for the month kept in calc
CallMonthRange ==
  /\ ~calc.called
  /\ calc' = [calc EXCEPT !.called = TRUE, !.result = MonthRange(calc.selected_month_str)]
  /\ UNCHANGED <<db_vars, session, resp, pending>>

SpecMonth == InitMonth /\ [][CallMonthRange]_vars

(***************************************************************************)
(* The two reports of a month that holds several services                  *)
(***************************************************************************)
MaxListed == 3

\* forms add_service accepts for 29 February 2024: two shifts at one place,
\* of 8.2 and of 7.7 hours, and one of 0.08 hours at another
TaskForms ==
  {Form(Place_A, D_0229, T_0800, B_30, T_1612, << >>, TRUE),
   Form(Place_A, D_0229, T_0800, B_30, T_1612, << >>, FALSE),
   Form(Place_b, D_0229, T_0800, B_30, T_8_5, << >>, TRUE)}

\* The default user has logged in in the current month and has added up to
\* MaxListed services of that month.
InitTasks ==
  /\ \E salt \in Salts :
       users = {[id |-> 1, username |-> U_Arles,
                 password_hash |-> generate_password_hash(DEFAULT_ADMIN_PASSWORD, salt)]}
  /\ \E n \in 0..MaxListed :
       /\ \E added \in [1..n -> TaskForms] :
            services =
              {[id             |-> i,
                user_id        |-> 1,
                place          |-> added[i].place,
                date           |-> ParseServiceForm(added[i]).val.date,
                entry_time     |-> ParseServiceForm(added[i]).val.entry_time,
                break_duration |-> ParseServiceForm(added[i]).val.break_duration,
                exit_time      |-> ParseServiceForm(added[i]).val.exit_time,
                worked_hours   |->
                  calculate_worked_hours(added[i].entry_time, added[i].exit_time,
                                         ParseServiceForm(added[i]).val.break_duration),
                observations   |-> strip(added[i].observations)] : i \in 1..n}
       /\ next_service_id = n + 1
  /\ next_user_id = 2
  /\ session = [x \in {"logged_in", "username", "user_id", "current_month_selected",
                       "_permanent", "_flashes"} |->
                  CASE x = "username" -> U_Arles
                    [] x = "user_id" -> 1
                    [] x = "current_month_selected" -> NowMonth
                    [] OTHER -> TRUE]
  /\ resp = RespNone
  /\ calc = [entry_time_str |-> << >>, exit_time_str |-> << >>,
             break_duration_min |-> 0, called |-> FALSE, result |-> 0]
  /\ pending = {}

NextTasks ==
  \/ generate_tasks_pdf
  \/ download_pdf

SpecTasks == InitTasks /\ [][NextTasks]_vars

(***************************************************************************)
(* Writers of table 'users' running at the same time: several workers of   *)
(* the application, create_user.py and init_db.py each run their SELECT    *)
(* and, later, their commit; other writers' steps may come in between.     *)
(* Every writer is its own client, so the one browser session of the       *)
(* variable session is not involved.                                       *)
(***************************************************************************)
MaxPending == 2

\* usernames typed into register, profile and create_user.py
UsernameInputs == {U_Arles, U_bob, <<" ">> \o U_bob, << >>}

\* username = db.Column(db.String(80), unique=True, nullable=False): TRUE
\* when a row other than row id already holds the username, so that the
\* INSERT or UPDATE raises IntegrityError
UniqueViolation(id, username) == \E u \in users : u.username = username /\ u.id # id

\* the database before init_db.py or any other writer has run
InitUsers ==
  /\ users = {} /\ services = {} /\ next_user_id = 1 /\ next_service_id = 1
  /\ session = << >>
  /\ resp = RespNone
  /\ calc = [entry_time_str |-> << >>, exit_time_str |-> << >>,
             break_duration_min |-> 0, called |-> FALSE, result |-> 0]
  /\ pending = {}

\* register, POST, up to and including its SELECT: either it answers with
\* the form again, or new_user is ready for db.session.add and commit
register_select(username, password, confirm_password, registration_code) ==
  /\ Cardinality(pending) < MaxPending
  /\ IF \/ registration_code # REGISTRATION_CODE
        \/ Len(username) < 3
        \/ Len(password) < 6
        \/ password # confirm_password
        \/ UserByName(username) # {}
     THEN /\ resp' = RespOf("register", "select", "200", [id |-> 0, username |-> username])
          /\ UNCHANGED pending
     ELSE /\ resp' = RespOf("register", "select", "pending", [id |-> 0, username |-> username])
          /\ pending' = pending \cup {[kind |-> "register", id |-> 0, username |-> username,
                                       password |-> password]}
  /\ UNCHANGED <<db_vars, session, calc>>

\* profile, POST with the field username alone, by the logged in user of
\* row user, up to and including its SELECT and the assignment of
\* user.username
profile_select(user, new_username_field) ==
  /\ Cardinality(pending) < MaxPending
  /\ LET new_username == strip(new_username_field)
     IN  IF /\ new_username # << >>
            /\ new_username # user.username
            /\ \A e \in UserByName(new_username) : e.id = user.id
         THEN /\ resp' = RespOf("profile", "select", "pending",
                                [id |-> user.id, username |-> new_username])
              /\ pending' = pending \cup {[kind |-> "profile", id |-> user.id,
                                           username |-> new_username,
                                           password |-> << >>]}
         ELSE /\ resp' = RespOf("profile", "select", "302 profile",
                                [id |-> user.id, username |-> new_username])
              /\ UNCHANGED pending
  /\ UNCHANGED <<db_vars, session, calc>>

\* create_user.py up to the second getpass
create_user_select(username_input, password, confirm_password) ==
  /\ Cardinality(pending) < MaxPending
  /\ LET username == strip(username_input)
     IN  IF \/ username = << >>
            \/ UserByName(username) # {}
            \/ password # confirm_password
            \/ password = << >>
         THEN /\ resp' = RespOf("create_user", "select", "aborted",
                                [id |-> 0, username |-> username])
              /\ UNCHANGED pending
         ELSE /\ resp' = RespOf("create_user", "select", "pending",
                                [id |-> 0, username |-> username])
              /\ pending' = pending \cup {[kind |-> "create_user", id |-> 0,
                                           username |-> username, password |-> password]}
  /\ UNCHANGED <<db_vars, session, calc>>

\* init_db.py up to its SELECT of 'Arles'
init_db_select ==
  /\ Cardinality(pending) < MaxPending
  /\ IF UserByName(U_Arles) = {}
     THEN /\ resp' = RespOf("init_db", "select", "pending", [id |-> 0, username |-> U_Arles])
          /\ pending' = pending \cup {[kind |-> "init_db", id |-> 0, username |-> U_Arles,
                                       password |-> DEFAULT_ADMIN_PASSWORD]}
     ELSE /\ resp' = RespOf("init_db", "select", "exists", [id |-> 0, username |-> U_Arles])
          /\ UNCHANGED pending
  /\ UNCHANGED <<db_vars, session, calc>>

\* variant: the column is declared without unique=True
commit_unconstrained(w) ==
  /\ w \in pending
  /\ pending' = pending \ {w}
  /\ IF w.kind = "profile"
     THEN /\ users' = {[u EXCEPT !.username = IF u.id = w.id THEN w.username ELSE @] :
                        u \in users}
          /\ UNCHANGED next_user_id
     ELSE \E salt \in Salts : InsertUser(w.username, w.password, salt)
  /\ resp' = RespOf(w.kind, "commit", "written", [id |-> w.id, username |-> w.username])
  /\ UNCHANGED <<services, next_service_id, session, calc>>

\* db.session.commit() of a pending writer: the INSERT of the new row or
\* the UPDATE of the renamed one.  An IntegrityError leaves the table as it
\* is: create_user.py rolls back, the others end with the exception.
commit(w) ==
  /\ w \in pending
  /\ pending' = pending \ {w}
  /\ IF UniqueViolation(w.id, w.username)
     THEN /\ resp' = RespOf(w.kind, "commit", "IntegrityError",
                            [id |-> w.id, username |-> w.username])
          /\ UNCHANGED <<users, next_user_id>>
     ELSE /\ IF w.kind = "profile"
             THEN /\ users' = {[u EXCEPT !.username = IF u.id = w.id THEN w.username ELSE @] :
                                u \in users}
                  /\ UNCHANGED next_user_id
             ELSE \E salt \in Salts : InsertUser(w.username, w.password, salt)
          /\ resp' = RespOf(w.kind, "commit", "written",
                            [id |-> w.id, username |-> w.username])
  /\ UNCHANGED <<services, next_service_id, session, calc>>

NextUsers ==
  \/ \E r \in RegisterRequests, username \in UsernameInputs :
       r[1] = "POST" /\ register_select(username, r[3], r[4], r[5])
  \/ \E user \in users, username \in UsernameInputs : profile_select(user, username)
  \/ \E username \in UsernameInputs, password \in {P_secret, << >>} :
       create_user_select(username, password, P_secret)
  \/ init_db_select
  \/ \E w \in pending : commit(w)

SpecUsers == InitUsers /\ [][NextUsers]_vars


(***************************************************************************)
(* Properties of calculate_worked_hours (checked under SpecCalc)           *)
(***************************************************************************)
\* a text of exactly the shape HH:MM with HH in 00..23 and MM in 00..59
WellFormedHHMM(s) ==
  /\ Len(s) = 5
  /\ IsDigit(s[1]) /\ IsDigit(s[2]) /\ s[3] = ":" /\ IsDigit(s[4]) /\ IsDigit(s[5])
  /\ 10 * DigitVal(s[1]) + DigitVal(s[2]) <= 23
  /\ 10 * DigitVal(s[4]) + DigitVal(s[5]) <= 59

\* minutes since midnight of a well-formed HH:MM text
ClockMinutes(s) ==
  (10 * DigitVal(s[1]) + DigitVal(s[2])) * 60 + 10 * DigitVal(s[4]) + DigitVal(s[5])

\* a text that denotes a time of day as hours ":" minutes, each written with
\* one or two digits, hours at most 23 and minutes at most 59
IsNumber12(s) == Len(s) \in {1, 2} /\ \A i \in 1..Len(s) : IsDigit(s[i])

ValidHM(s) ==
  \E i \in 1..Len(s) :
    /\ s[i] = ":"
    /\ IsNumber12(SubSeq(s, 1, i - 1)) /\ DecVal(SubSeq(s, 1, i - 1)) <= 23
    /\ IsNumber12(SubSeq(s, i + 1, Len(s))) /\ DecVal(SubSeq(s, i + 1, Len(s))) <= 59

\* hundredths is (minutes / 60) hours rounded to two decimals
IsHoursRounded(hundredths, minutes) == 2 * Abs(60 * hundredths - 100 * minutes) <= 60

\* C1: for well-formed HH:MM entry and exit times with exit >= entry and an
\* integer break b, calculate_worked_hours returns ((exit - entry) - b) / 60
\* rounded to two decimals.
C1_WorkedHours ==
  (/\ calc.called
   /\ WellFormedHHMM(calc.entry_time_str) /\ WellFormedHHMM(calc.exit_time_str)
   /\ ClockMinutes(calc.exit_time_str) >= ClockMinutes(calc.entry_time_str))
  => IsHoursRounded(calc.result,
                    ClockMinutes(calc.exit_time_str) - ClockMinutes(calc.entry_time_str)
                    - calc.break_duration_min)

\* a call with exit after entry and a break whose result is not a whole
\* number of hundredths before rounding
C1_Witness ==
  /\ calc.called
  /\ WellFormedHHMM(calc.entry_time_str) /\ WellFormedHHMM(calc.exit_time_str)
  /\ ClockMinutes(calc.exit_time_str) > ClockMinutes(calc.entry_time_str)
  /\ calc.break_duration_min > 0
  /\ calc.result > 0
  /\ 60 * calc.result # 100 * (ClockMinutes(calc.exit_time_str)
                              - ClockMinutes(calc.entry_time_str)
                              - calc.break_duration_min)

\* C2 (as claimed): when the exit time is earlier than the entry time the
\* shift ends on the following day: the result is
\* ((exit - entry + 24h) - break) / 60 rounded to two decimals.
C2_OvernightWrap ==
  (/\ calc.called
   /\ WellFormedHHMM(calc.entry_time_str) /\ WellFormedHHMM(calc.exit_time_str)
   /\ ClockMinutes(calc.exit_time_str) < ClockMinutes(calc.entry_time_str))
  => IsHoursRounded(calc.result,
                    ClockMinutes(calc.exit_time_str) - ClockMinutes(calc.entry_time_str)
                    + 24 * 60 - calc.break_duration_min)

\* C7: calculate_worked_hours returns 0.0 whenever the entry or the exit
\* text is not a valid time, for every break value.
C7_InvalidTimeZero ==
  (calc.called /\ (~ValidHM(calc.entry_time_str) \/ ~ValidHM(calc.exit_time_str)))
  => calc.result = 0

\* a call with a valid entry time, a malformed exit time and a break
C7_Witness ==
  /\ calc.called
  /\ ValidHM(calc.entry_time_str) /\ calc.entry_time_str # <<"0", "0", ":", "0", "0">>
  /\ ~ValidHM(calc.exit_time_str)
  /\ calc.break_duration_min # 0

(***************************************************************************)
(* Properties of the application (checked under Spec)                      *)
(***************************************************************************)
\* minutes since midnight of a text accepted as a time of day
MinutesOfHM(s) ==
  LET i == CHOOSE i \in 1..Len(s) : s[i] = ":"
  IN  DecVal(SubSeq(s, 1, i - 1)) * 60 + DecVal(SubSeq(s, i + 1, Len(s)))

\* the response to a service form that was saved
Saved(r) ==
  r.route \in {"add_service", "edit_service"} /\ r.method = "POST" /\ r.status = "302 index"

IsMonthText(m) ==
  /\ Len(m) \in {6, 7}
  /\ \A i \in 1..4 : IsDigit(m[i])
  /\ DecVal(SubSeq(m, 1, 4)) >= 1
  /\ m[5] = "-"
  /\ IsNumber12(SubSeq(m, 6, Len(m)))
  /\ DecVal(SubSeq(m, 6, Len(m))) \in 1..12

\* the stored services of the session's user dated in the session's month
SessionMonthServices ==
  LET m == Get(session, "current_month_selected")
  IN  {sv \in services :
         /\ sv.user_id \in SessionUserIds(session)
         /\ m # None /\ IsMonthText(m)
         /\ sv.date[1] = DecVal(SubSeq(m, 1, 4))
         /\ sv.date[2] = DecVal(SubSeq(m, 6, Len(m)))}

\* text occurs in s, letters compared without case
Contains(s, text) ==
  \E i \in 0..(Len(s) - Len(text)) :
    \A j \in 1..Len(text) : Lower(s[i + j]) = Lower(text[j])

\* the response lists the services of a month
ListsMonth(r) ==
  \/ r.route \in {"index", "tasks_summary"} /\ r.status = "200"
  \/ r.route \in {"download_pdf", "preview_pdf", "generate_tasks_pdf"} /\ r.status = "200 pdf"

\* C4 (as claimed): the services the monthly query of index, download_pdf,
\* preview_pdf, tasks_summary and generate_tasks_pdf returns are exactly the
\* stored services of the session's user dated in the session's month; index
\* narrows them by the search term.
C4_MonthlyQuery ==
  ListsMonth(resp) =>
    LET mine == {sv.id : sv \in SessionMonthServices}
    IN  IF resp.route = "index"
        THEN LET search_query == strip(resp.args.search)
             IN  /\ resp.queried \subseteq mine
                 /\ search_query = << >> => resp.queried = mine
                 /\ \A sv \in SessionMonthServices :
                      (Contains(sv.place, search_query)
                       \/ Contains(sv.observations, search_query))
                      => sv.id \in resp.queried
        ELSE resp.queried = mine

RECURSIVE SumHours(_)
\* the sum of the stored worked_hours of the listed services, in hundredths
SumHours(listing) ==
  IF listing = << >> THEN 0
  ELSE (CHOOSE sv \in services : sv.id = listing[1]).worked_hours + SumHours(Tail(listing))

\* a number of hundredths of an hour as whole hours and remaining whole
\* minutes, each written with at least two digits
HoursAndMinutes(hundredths) ==
  LET hours   == hundredths \div 100
      minutes == ((hundredths % 100) * 60) \div 100
      two(n)  == IF n < 0 THEN <<"-">> \o DecStr(-n)
                 ELSE IF n < 10 THEN <<"0">> \o DecStr(n) ELSE DecStr(n)
  IN  two(hours) \o <<":">> \o two(minutes)

\* a number of hundredths written with two decimals
TwoDecimals(hundredths) ==
  (IF hundredths < 0 THEN <<"-">> ELSE << >>)
    \o DecStr(Abs(hundredths) \div 100) \o <<".">>
    \o Pad2(Abs(hundredths) % 100) \o DecStr(Abs(hundredths) % 100)

\* C5 (as claimed): the total index reports is the sum of worked_hours of
\* the services it lists, as whole hours and remaining minutes ("00:00" when
\* it lists none), and the total of the services PDF is that sum for the
\* services it lists, with two decimals.
C5_MonthlyTotal ==
  /\ (resp.route = "index" /\ resp.status = "200")
       => resp.total = HoursAndMinutes(SumHours(resp.listing))
  /\ (resp.route \in {"download_pdf", "preview_pdf"} /\ resp.status = "200 pdf")
       => resp.total = TwoDecimals(SumHours(resp.listing))

\* a text YYYY-MM-DD that names a day of the calendar, the month and the day
\* written with one or two digits
IsDateText(s) ==
  \E i, j \in 1..Len(s) :
    /\ i < j /\ s[i] = "-" /\ s[j] = "-"
    /\ LET y == SubSeq(s, 1, i - 1)
           m == SubSeq(s, i + 1, j - 1)
           d == SubSeq(s, j + 1, Len(s))
       IN  /\ Len(y) = 4 /\ \A k \in 1..4 : IsDigit(y[k])
           /\ DecVal(y) >= 1
           /\ IsNumber12(m) /\ DecVal(m) \in 1..12
           /\ IsNumber12(d) /\ DecVal(d) >= 1
           /\ DecVal(d) <= DaysInMonth(DecVal(y), DecVal(m))

\* a text that is an integer: decimal digits after an optional sign, with
\* blanks allowed around it
IsIntegerText(s) ==
  LET t == strip(s)
      u == IF t # << >> /\ t[1] \in {"+", "-"} THEN Tail(t) ELSE t
  IN  u # << >> /\ \A k \in 1..Len(u) : IsDigit(u[k])

\* a submitted service form with a malformed date, time or break
Malformed(form) ==
  \/ ~IsDateText(form.date)
  \/ ~ValidHM(form.entry_time)
  \/ ~ValidHM(form.exit_time)
  \/ (~form.no_discount_break /\ ~IsIntegerText(form.break_duration))

\* C6: an add_service submission with a malformed date, entry time, exit
\* time or (checkbox unchecked) break, and one whose commit fails and is
\* rolled back, stores nothing: the stored services are unchanged.
C6_AddRejectsMalformed ==
  [][(/\ resp'.route = "add_service" /\ resp'.method = "POST"
      /\ resp'.status # "302 login"
      /\ (Malformed(resp'.args.form) \/ resp'.status = "200 rollback"))
     => /\ services' = services
        /\ next_service_id' = next_service_id
        /\ resp'.status # "302 index"]_vars

\* a submission with a break that is no integer, answered with the form
\* again while a service is stored
C6_Witness ==
  /\ resp.route = "add_service" /\ resp.method = "POST" /\ resp.status = "200"
  /\ IsDateText(resp.args.form.date)
  /\ ValidHM(resp.args.form.entry_time) /\ ValidHM(resp.args.form.exit_time)
  /\ ~resp.args.form.no_discount_break
  /\ ~IsIntegerText(resp.args.form.break_duration)
  /\ services # {}

ProtectedRoutes ==
  {"index", "add_service", "edit_service", "delete_service", "load_month",
   "load_tasks_month", "download_pdf", "preview_pdf", "tasks_summary",
   "generate_tasks_pdf", "profile"}

\* logged_in is absent from the session or false
NotLoggedIn(sess) == "logged_in" \notin DOMAIN sess \/ sess["logged_in"] = FALSE

\* C8 (as claimed): a login_required route requested with a session in
\* which logged_in is absent or false redirects to login and changes no
\* stored user, no stored service and no session key.
C8_RedirectChangesNothing ==
  [][(resp'.route \in ProtectedRoutes /\ NotLoggedIn(session))
     => /\ resp'.status = "302 login"
        /\ users' = users /\ services' = services
        /\ session' = session]_vars

\* C8 (amended): such a request redirects to login and changes no stored
\* user, no stored service and no session key other than '_flashes', the
\* list of flashed messages, to which the redirect adds its warning.
C8_RedirectChangesOnlyFlashes ==
  [][(resp'.route \in ProtectedRoutes /\ NotLoggedIn(session))
     => /\ resp'.status = "302 login"
        /\ users' = users /\ services' = services
        /\ next_user_id' = next_user_id /\ next_service_id' = next_service_id
        /\ DOMAIN session' = DOMAIN session \cup {"_flashes"}
        /\ \A k \in DOMAIN session \ {"_flashes"} : session'[k] = session[k]]_vars

\* delete_service was redirected to login while a service is stored and
\* the session holds no login
C8_Witness ==
  /\ resp.route = "delete_service" /\ resp.status = "302 login"
  /\ NotLoggedIn(session)
  /\ services # {}

\* no stored service has this id and belongs to the session's user
NotOwned(service_id) ==
  \A sv \in services :
    sv.id = service_id =>
      ("user_id" \notin DOMAIN session \/ sv.user_id # session["user_id"])

\* C9: edit_service and delete_service, reached by a logged-in session with
\* a service_id that does not exist or belongs to another user, end in 404
\* and leave every stored service as it was.
C9_OwnerOnly ==
  [][(/\ resp'.route \in {"edit_service", "delete_service"}
      /\ resp'.status # "302 login"
      /\ NotOwned(resp'.args.service_id))
     => /\ resp'.status = "404"
        /\ services' = services]_vars

\* a delete of a stored service of another user was answered with 404
C9_Witness ==
  /\ resp.route = "delete_service" /\ resp.status = "404"
  /\ "user_id" \in DOMAIN session
  /\ \E sv \in services :
       sv.id = resp.args.service_id /\ sv.user_id # session["user_id"]

\* the four keys login sets
LoginKeys == {"logged_in", "user_id", "username", "current_month_selected"}

\* the stored users the submitted username names whose stored hash was made
\* from the submitted password
Verified(username, password) ==
  {u \in users : u.username = username /\ u.password_hash.digest[2] = password}

\* C10: the session goes from not logged in to logged in only by a login
\* POST whose username names a stored user u and whose password verifies
\* against u's hash, and then holds user_id = u.id, that username and the
\* current month; a login POST of a session that is not logged in with an
\* unknown username or a wrong password leaves it not logged in and leaves
\* all four keys as they were.
C10_LoginOnly ==
  [][/\ (NotLoggedIn(session) /\ ~NotLoggedIn(session'))
          => /\ resp'.route = "login" /\ resp'.method = "POST"
             /\ \E u \in Verified(resp'.args.username, resp'.args.password) :
                  /\ session'["logged_in"] = TRUE
                  /\ session'["user_id"] = u.id
                  /\ session'["username"] = u.username
                  /\ session'["current_month_selected"] = NowMonth
     /\ (/\ resp'.route = "login" /\ resp'.method = "POST"
         /\ NotLoggedIn(session)
         /\ Verified(resp'.args.username, resp'.args.password) = {})
          => /\ NotLoggedIn(session')
             /\ resp'.status = "200"
             /\ \A k \in LoginKeys :
                  /\ k \in DOMAIN session' <=> k \in DOMAIN session
                  /\ k \in DOMAIN session => session'[k] = session[k]]_vars

\* a user who registered has logged in
C10_Witness ==
  /\ resp.route = "login" /\ resp.method = "POST" /\ resp.status = "302 index"
  /\ ~NotLoggedIn(session)
  /\ session["username"] = U_bob
  /\ \E u \in users : u.id = session["user_id"] /\ u.username = U_bob /\ u.id # 1

\* the session holds none of the four keys login sets
LoggedOut(sess) == LoginKeys \cap DOMAIN sess = {}

\* C11: logout leaves the session without logged_in, username, user_id and
\* current_month_selected; and as long as the session holds none of them,
\* every login_required route redirects to login and only a login POST that
\* succeeds puts any of them back.
C11_LogoutEndsLogin ==
  [][/\ resp'.route = "logout" => LoggedOut(session')
     /\ LoggedOut(session)
          => /\ resp'.route \in ProtectedRoutes => resp'.status = "302 login"
             /\ ~LoggedOut(session')
                  => /\ resp'.route = "login" /\ resp'.method = "POST"
                     /\ resp'.status = "302 index"
                     /\ Verified(resp'.args.username, resp'.args.password) # {}]_vars

\* after a login and a logout (logout keeps '_permanent', which only a login
\* sets) a request for index was redirected to login
C11_Witness ==
  /\ resp.route = "index" /\ resp.status = "302 login"
  /\ "_permanent" \in DOMAIN session
  /\ LoggedOut(session)
  /\ services # {}

(***************************************************************************)
(* Unique usernames (checked under SpecUsers)                              *)
(***************************************************************************)
\* C12: whatever the order and interleaving of register, profile renames,
\* create_user.py and init_db.py, no two rows of users hold the same
\* username; and a step of register or of a rename whose username is held
\* by another row leaves the table as it is.
C12_UniqueUsernames ==
  [][/\ \A u1, u2 \in users' : u1.username = u2.username => u1 = u2
     /\ /\ resp'.route \in {"register", "profile"}
        /\ \E u \in users : u.username = resp'.args.username /\ u.id # resp'.args.id
        => users' = users]_vars

\* two writers passed their SELECT for the same username; the first has
\* committed and the commit of the second has been refused
C12_Witness ==
  /\ resp.method = "commit" /\ resp.status = "IntegrityError"
  /\ resp.route \in {"register", "profile"}
  /\ \E u \in users : u.username = resp.args.username /\ u.id # resp.args.id
  /\ Cardinality(users) = 2

(***************************************************************************)
(* Failed edits                                                            *)
(***************************************************************************)
\* C13: an edit_service POST by the owner with a malformed date, time or
\* (checkbox unchecked) break is not saved and leaves every stored service
\* as it was, in every field, the fields assigned before the failing
\* conversion included; so does one whose commit fails and is rolled back.
C13_FailedEditChangesNothing ==
  [][(/\ resp'.route = "edit_service" /\ resp'.method = "POST"
      /\ resp'.status \notin {"302 login", "404"}
      /\ (Malformed(resp'.args.form) \/ resp'.status = "200 rollback"))
     => /\ services' = services
        /\ resp'.status # "302 index"]_vars

\* an edit whose break is no integer, so that place, date, times and
\* observations were assigned before int() raised, of a stored service that
\* has another place and another date
C13_Witness ==
  /\ resp.route = "edit_service" /\ resp.method = "POST" /\ resp.status = "200"
  /\ IsDateText(resp.args.form.date)
  /\ ValidHM(resp.args.form.entry_time) /\ ValidHM(resp.args.form.exit_time)
  /\ ~resp.args.form.no_discount_break
  /\ ~IsIntegerText(resp.args.form.break_duration)
  /\ \E sv \in services :
       /\ sv.id = resp.args.service_id
       /\ sv.place # resp.args.form.place
       /\ sv.date # strptime_YMD(resp.args.form.date).val

(***************************************************************************)
(* The range of a month (checked under SpecMonth)                          *)
(***************************************************************************)
\* the year and the month a text YYYY-MM names
YearOf(m) == DecVal(SubSeq(m, 1, 4))

MonthOf(m) == DecVal(SubSeq(m, 6, Len(m)))

\* the day after the last day of the month, as <<year, month, day>>
FollowingFirst(y, m) == IF m = 12 THEN <<y + 1, 1, 1>> ELSE <<y, m + 1, 1>>

\* C14 (as claimed): for every selected month YYYY-MM the range computed is
\* the first day of the month to its last day (31 for December, 29 or 28
\* for February), so that the query's comparisons include a service of the
\* last day and exclude one of the first day of the following month.
C14_MonthRange ==
  (calc.called /\ IsMonthText(calc.selected_month_str)) =>
    LET y    == YearOf(calc.selected_month_str)
        m    == MonthOf(calc.selected_month_str)
        last == <<y, m, DaysInMonth(y, m)>>
    IN  /\ calc.result.ok
        /\ calc.result.val.start_date = <<y, m, 1>>
        /\ calc.result.val.end_date = last
        /\ DateLeq(calc.result.val.start_date, last)
        /\ DateLeq(last, calc.result.val.end_date)
        /\ ~DateLeq(FollowingFirst(y, m), calc.result.val.end_date)

(***************************************************************************)
(* Selecting a month                                                       *)
(***************************************************************************)
\* C15: load_month and load_tasks_month put a submitted selected_month that
\* is not empty into session['current_month_selected'], whatever it is, and
\* leave the key as it was when the field is missing or empty; and index,
\* when the month kept there names no month YYYY-MM, lists no service,
\* shows the total "00:00" and leaves users and services as they were.
C15_SelectedMonth ==
  [][/\ (resp'.route \in {"load_month", "load_tasks_month"}
         /\ resp'.status # "302 login")
        => IF resp'.args.selected_month \notin {None, << >>}
           THEN Get(session', "current_month_selected") = resp'.args.selected_month
           ELSE Get(session', "current_month_selected")
                  = Get(session, "current_month_selected")
     /\ (/\ resp'.route = "index" /\ resp'.status = "200"
         /\ ~IsMonthText(Get(session, "current_month_selected")))
        => /\ resp'.listing = << >>
           /\ resp'.queried = {}
           /\ resp'.total = <<"0", "0", ":", "0", "0">>
           /\ UNCHANGED db_vars]_vars

\* index answered for the stored month 2024-13 while the user has a service
C15_Witness ==
  /\ resp.route = "index" /\ resp.status = "200"
  /\ Get(session, "current_month_selected") = M_2413
  /\ ~IsMonthText(M_2413)
  /\ resp.listing = << >>
  /\ \E sv \in services : sv.user_id \in SessionUserIds(session)

(***************************************************************************)
(* The two reports of a month (checked under SpecTasks)                    *)
(***************************************************************************)
RECURSIVE HoursOf(_)
\* the sum of worked_hours of a set of services, in hundredths
HoursOf(rows) ==
  IF rows = {} THEN 0
  ELSE LET sv == CHOOSE r \in rows : TRUE
       IN  sv.worked_hours + HoursOf(rows \ {sv})

\* C16: the tasks PDF has one row for each place of the user's services of
\* the selected month, whose total is the sum of worked_hours of the
\* services of that place, so that every service counts in exactly one row;
\* and its 'Total General de Horas' is the sum over all of them, which is
\* the total the services PDF prints for the same user and month.
C16_TasksTotal ==
  (resp.route = "generate_tasks_pdf" /\ resp.status = "200 pdf") =>
    LET rows == {sv \in services : sv.id \in resp.queried}
        n    == Len(resp.summary)
    IN  /\ \A i, j \in 1..n : resp.summary[i][1] = resp.summary[j][1] => i = j
        /\ {resp.summary[i][1] : i \in 1..n} = {sv.place : sv \in rows}
        /\ \A i \in 1..n :
             resp.summary[i][2]
               = TwoDecimals(HoursOf({sv \in rows : sv.place = resp.summary[i][1]}))
        /\ resp.total = TwoDecimals(HoursOf(rows))
        /\ \A listing \in
               DateOrder(MonthQuery(MonthRanges[Get(session, "current_month_selected")].val)) :
             /\ {sv.id : sv \in MonthQuery(MonthRanges[Get(session, "current_month_selected")].val)}
                  = resp.queried
             /\ PdfTotal(listing) = resp.total

\* a tasks PDF of three services, two of them at one place, with hours
\* 8.2, 7.7 and 0.08
C16_Witness ==
  /\ resp.route = "generate_tasks_pdf" /\ resp.status = "200 pdf"
  /\ Cardinality(resp.queried) = 3
  /\ Len(resp.summary) = 2
  /\ {sv.worked_hours : sv \in services} = {820, 770, 8}
  /\ resp.total = <<"1", "5", ".", "9", "8">>

(***************************************************************************)
(* The computed field                                                      *)
(***************************************************************************)
\* calculate_worked_hours of the times and breaks the forms can store,
\* computed once
RecalculatedHours ==
  [t \in {<<8, 0>>, <<8, 5>>, <<16, 12>>} \X {<<8, 0>>, <<8, 5>>, <<16, 12>>} \X {0, 30} |->
     calculate_worked_hours(strftime_HM(t[1]), strftime_HM(t[2]), t[3])]

\* calculate_worked_hours of the entry_time, exit_time (written as HH:MM)
\* and break_duration of a stored service
Recalculated(sv) ==
  IF <<sv.entry_time, sv.exit_time, sv.break_duration>> \in DOMAIN RecalculatedHours
  THEN RecalculatedHours[<<sv.entry_time, sv.exit_time, sv.break_duration>>]
  ELSE calculate_worked_hours(strftime_HM(sv.entry_time), strftime_HM(sv.exit_time),
                              sv.break_duration)

\* C17: in every reachable state the worked_hours of each stored service is
\* what calculate_worked_hours gives for the entry_time, exit_time (written
\* as HH:MM) and break_duration stored in the same row.
C17_HoursNeverStale ==
  \A sv \in services : sv.worked_hours = Recalculated(sv)

\* a service added with one-digit time fields and a break, then edited to
\* other times with no break deducted
C17_Witness ==
  /\ resp.route = "edit_service" /\ resp.status = "302 index"
  /\ resp.args.form = F_day
  /\ \E sv \in services :
       /\ sv.id = resp.args.service_id
       /\ sv.break_duration = 0
       /\ sv.worked_hours = 820
  /\ \E sv \in services : sv.break_duration = 30 /\ sv.entry_time = <<16, 12>>

====
